---- MODULE Spec2Model ----
(***************************************************************************)
(* The polls application: the four request handlers of polls/views.py      *)
(* (index, detail, results, vote) over the two tables Question and Choice, *)
(* the clock timezone.now(), and Question.was_published_recently().        *)
(*                                                                         *)
(* A handler that only reads is one atomic action.  vote reads the choice  *)
(* row into memory (views.py:35) and writes it back in a second database   *)
(* round trip (views.py:48); settings.py configures no ATOMIC_REQUESTS, so *)
(* under concurrent requests these are two steps (voteBegin, voteSave).    *)
(* When requests do not overlap the whole handler is one step (vote).      *)
(***************************************************************************)
EXTENDS Integers, Sequences, FiniteSets, TLC

VARIABLES
    now,             \* the value timezone.now() returns
    pub_date,        \* Question table: id -> pub_date
    choice_question, \* Choice table: id -> question_id (the foreign key)
    votes,           \* Choice table: id -> votes
    pc,              \* per worker: "idle", or "save" between views.py:35 and :48
    selected_choice, \* per worker: the request and the Choice instance held in memory
    resp,            \* the last response sent
    redirects,       \* per choice: how many vote requests resolved it and answered 302
    recently         \* the last call of was_published_recently and what it returned

vars == <<now, pub_date, choice_question, votes, pc, selected_choice, resp, redirects,
          recently>>

----------------------------------------------------------------------------
\* Bounds of the model.

\* concurrent request workers
NWorkers == 2
\* the clock runs over 0..MaxNow; a pub_date of MaxNow + 1 stays in the future
MaxNow == 1
\* vote requests that resolve a choice, over one behaviour
MaxVotes == 3
\* length of a submitted `choice` value, in characters
MaxFieldLen == 1

Workers == 1..NWorkers

----------------------------------------------------------------------------
\* Requests.

\* question ids a URL can carry: the stored ones and one that is not stored
UrlQuestionIds == 1..3

\* characters of a submitted form value
Chars == {"0", "1", "3", "x"}

DigitVal == ("0" :> 0) @@ ("1" :> 1) @@ ("3" :> 3)

FieldValues == UNION {[1..n -> Chars] : n \in 0..MaxFieldLen}

\* request.POST: a mapping that has the key "choice" or does not
NoField == [k \in {} |-> <<>>]
PostData == {NoField} \cup {[choice |-> s] : s \in FieldValues}

----------------------------------------------------------------------------
\* Responses.

NoList == <<>>

Response(op, q, post, status, template, msg, loc, list) ==
    [op |-> op, question_id |-> q, post |-> post, at |-> now, status |-> status,
     template |-> template, error_message |-> msg, location |-> loc,
     latest_question_list |-> list]

NoResponse ==
    [op |-> "none", question_id |-> 0, post |-> NoField, at |-> 0, status |-> 0,
     template |-> "", error_message |-> "", location |-> 0,
     latest_question_list |-> NoList]

Http404(op, q, post) == Response(op, q, post, 404, "", "", 0, NoList)

\* an exception the view does not catch: the server answers 500
ServerError(op, q, post) == Response(op, q, post, 500, "", "", 0, NoList)

ErrorMessage == "You didn't select a choice."

----------------------------------------------------------------------------
\* Lookups.

\* get_object_or_404(Question, pk=question_id) finds a row
QuestionExists(q) == q \in DOMAIN pub_date

\* a variant of the check below that also hides a question published right now
IsFutureOrNow(q) == pub_date[q] >= now

\* question.pub_date > timezone.now()
IsFuture(q) == pub_date[q] > now

\* Question.objects.filter(pub_date__lte=timezone.now())
PublishedQuestions == {q \in DOMAIN pub_date : pub_date[q] <= now}

\* int(value), as the primary key field prepares a lookup value
WellFormed(s) == Len(s) > 0 /\ \A i \in 1..Len(s) : s[i] \in DOMAIN DigitVal

RECURSIVE ToInt(_)
ToInt(s) ==
    IF s = <<>> THEN 0
    ELSE 10 * ToInt(SubSeq(s, 1, Len(s) - 1)) + DigitVal[s[Len(s)]]

\* a variant of the lookup below over all choices: Choice.objects.get(pk=...)
ChoiceGetAnyQuestion(q, post) ==
    IF "choice" \notin DOMAIN post THEN [exc |-> "KeyError", id |-> 0]
    ELSE IF ~WellFormed(post.choice) THEN [exc |-> "ValueError", id |-> 0]
    ELSE LET pk == ToInt(post.choice) IN
         IF pk \in DOMAIN choice_question
         THEN [exc |-> "", id |-> pk]
         ELSE [exc |-> "DoesNotExist", id |-> 0]

\* question.choice_set.get(pk=request.POST["choice"]): the exception raised,
\* or "" and the id of the row found
ChoiceSetGet(q, post) ==
    IF "choice" \notin DOMAIN post THEN [exc |-> "KeyError", id |-> 0]
    ELSE IF ~WellFormed(post.choice) THEN [exc |-> "ValueError", id |-> 0]
    ELSE LET pk == ToInt(post.choice) IN
         IF pk \in DOMAIN choice_question /\ choice_question[pk] = q
         THEN [exc |-> "", id |-> pk]
         ELSE [exc |-> "DoesNotExist", id |-> 0]

\* except (KeyError, Choice.DoesNotExist)
Caught(exc) == exc \in {"KeyError", "DoesNotExist"}

InFlight == {p \in Workers : pc[p] = "save"}

RECURSIVE SumOver(_, _)
SumOver(f, S) ==
    IF S = {} THEN 0
    ELSE LET x == CHOOSE y \in S : TRUE IN f[x] + SumOver(f, S \ {x})

\* vote requests that have resolved a choice so far
VotesStarted == SumOver(redirects, DOMAIN redirects) + Cardinality(InFlight)

----------------------------------------------------------------------------
\* The clock.

Tick ==
    /\ now < MaxNow
    /\ now' = now + 1
    /\ UNCHANGED <<pub_date, choice_question, votes, pc, selected_choice, resp, redirects, recently>>

----------------------------------------------------------------------------
\* index (views.py:8-13).

\* a variant of the order below: ascending, order_by("pub_date")
Oldest(S) == {q \in S : \A r \in S : pub_date[r] >= pub_date[q]}

\* the questions of S with the latest pub_date
Latest(S) == {q \in S : \A r \in S : pub_date[r] <= pub_date[q]}

\* .order_by("-pub_date")[:n]: every order the database may return the rows
\* in; rows with equal pub_date come in any order
RECURSIVE OrderByPubDateDesc(_, _)
OrderByPubDateDesc(S, n) ==
    IF n = 0 \/ S = {} THEN {<<>>}
    ELSE UNION {{<<q>> \o rest : rest \in OrderByPubDateDesc(S \ {q}, n - 1)} :
                q \in Latest(S)}

\* the slice [:5]
ListLimit == 5

LatestQuestionLists == OrderByPubDateDesc(PublishedQuestions, ListLimit)

index ==
    /\ \E l \in LatestQuestionLists :
          resp' = Response("index", 0, NoField, 200, "polls/index.html", "", 0, l)
    /\ UNCHANGED <<now, pub_date, choice_question, votes, pc, selected_choice, redirects, recently>>

----------------------------------------------------------------------------
\* detail (views.py:16-20) and results (views.py:23-27).

\* get_object_or_404, then the pub_date check, then render(template)
QuestionPage(op, q, template) ==
    IF ~QuestionExists(q) THEN Http404(op, q, NoField)
    ELSE IF IsFuture(q) THEN Http404(op, q, NoField)
    ELSE Response(op, q, NoField, 200, template, "", 0, NoList)

detail(q) ==
    /\ resp' = QuestionPage("detail", q, "polls/detail.html")
    /\ UNCHANGED <<now, pub_date, choice_question, votes, pc, selected_choice, redirects, recently>>

results(q) ==
    /\ resp' = QuestionPage("results", q, "polls/results.html")
    /\ UNCHANGED <<now, pub_date, choice_question, votes, pc, selected_choice, redirects, recently>>

----------------------------------------------------------------------------
\* vote (views.py:30-50).

\* a variant of the lookups below without the pub_date check
VoteLookupAnyDate(q, post) ==
    IF ~QuestionExists(q) THEN [kind |-> "Http404", id |-> 0]
    ELSE LET r == ChoiceSetGet(q, post) IN
         IF r.exc = "" THEN [kind |-> "selected", id |-> r.id]
         ELSE IF Caught(r.exc) THEN [kind |-> "redisplay", id |-> 0]
         ELSE [kind |-> "raise", id |-> 0]

\* views.py:31-36: how far the handler gets before it touches a vote count
VoteLookup(q, post) ==
    IF ~QuestionExists(q) THEN [kind |-> "Http404", id |-> 0]
    ELSE IF IsFuture(q) THEN [kind |-> "Http404", id |-> 0]
    ELSE LET r == ChoiceSetGet(q, post) IN
         IF r.exc = "" THEN [kind |-> "selected", id |-> r.id]
         ELSE IF Caught(r.exc) THEN [kind |-> "redisplay", id |-> 0]
         ELSE [kind |-> "raise", id |-> 0]

\* the response of a vote request that selected no choice
VoteRefusal(q, post, kind) ==
    IF kind = "Http404" THEN Http404("vote", q, post)
    ELSE IF kind = "redisplay"
    THEN Response("vote", q, post, 200, "polls/detail.html", ErrorMessage, 0, NoList)
    ELSE ServerError("vote", q, post)

\* a variant of the increment below that records a vote as a flag
AssignOne(v) == 1

\* selected_choice.votes += 1
Increment(v) == v + 1

\* a variant of the write below with no WHERE clause
SaveEveryRow(c, v) == [d \in DOMAIN votes |-> v]

\* selected_choice.save(): UPDATE of the row with the instance's id
Save(c, v) == [votes EXCEPT ![c] = v]

\* HttpResponseRedirect(reverse("results", args=(question.id,)))
Redirect(q, post) == Response("vote", q, post, 302, "", "", q, NoList)

\* the whole handler, when no other request runs between its queries
vote(q, post) ==
    /\ InFlight = {}
    /\ LET l == VoteLookup(q, post) IN
       IF l.kind = "selected"
       THEN /\ VotesStarted < MaxVotes
            /\ votes' = Save(l.id, Increment(votes[l.id]))
            /\ redirects' = [redirects EXCEPT ![l.id] = @ + 1]
            /\ resp' = Redirect(q, post)
       ELSE /\ resp' = VoteRefusal(q, post, l.kind)
            /\ UNCHANGED <<votes, redirects>>
    /\ UNCHANGED <<now, pub_date, choice_question, pc, selected_choice, recently>>

NoChoice == [id |-> 0, votes |-> 0, question_id |-> 0, post |-> NoField]

\* views.py:31-36 on worker p: the lookups; the choice row is read into memory
voteBegin(p, q, post) ==
    /\ pc[p] = "idle"
    /\ LET l == VoteLookup(q, post) IN
       IF l.kind = "selected"
       THEN /\ VotesStarted < MaxVotes
            /\ pc' = [pc EXCEPT ![p] = "save"]
            /\ selected_choice' = [selected_choice EXCEPT ![p] =
                   [id |-> l.id, votes |-> votes[l.id], question_id |-> q, post |-> post]]
            /\ UNCHANGED resp
       ELSE /\ resp' = VoteRefusal(q, post, l.kind)
            /\ UNCHANGED <<pc, selected_choice>>
    /\ UNCHANGED <<now, pub_date, choice_question, votes, redirects, recently>>

\* views.py:47-50 on worker p: increment in memory, write the row, redirect
voteSave(p) ==
    /\ pc[p] = "save"
    /\ LET c == selected_choice[p] IN
       /\ votes' = Save(c.id, Increment(c.votes))
       /\ redirects' = [redirects EXCEPT ![c.id] = @ + 1]
       /\ resp' = Redirect(c.question_id, c.post)
    /\ pc' = [pc EXCEPT ![p] = "idle"]
    /\ selected_choice' = [selected_choice EXCEPT ![p] = NoChoice]
    /\ UNCHANGED <<now, pub_date, choice_question, recently>>

----------------------------------------------------------------------------
\* The database the requests run against: two questions, the first with two
\* choices and the second with one; every pub_date from the past to the future.

StoredQuestionIds == 1..2

ChoiceRows == (1 :> 1) @@ (2 :> 1) @@ (3 :> 2)

InitialVotes == (1 :> 0) @@ (2 :> 1) @@ (3 :> 0)

NotCalled == [question_id |-> 0, at |-> 0, value |-> FALSE]

Idle ==
    /\ pc = [p \in Workers |-> "idle"]
    /\ selected_choice = [p \in Workers |-> NoChoice]
    /\ resp = NoResponse
    /\ recently = NotCalled

Init ==
    /\ now = 0
    /\ pub_date \in [StoredQuestionIds -> 0..(MaxNow + 1)]
    /\ choice_question = ChoiceRows
    /\ votes = InitialVotes
    /\ redirects = [c \in DOMAIN ChoiceRows |-> 0]
    /\ Idle

\* requests handled concurrently by the workers
Next ==
    \/ Tick
    \/ index
    \/ \E q \in UrlQuestionIds : detail(q)
    \/ \E q \in UrlQuestionIds : results(q)
    \/ \E p \in Workers, q \in UrlQuestionIds, post \in PostData : voteBegin(p, q, post)
    \/ \E p \in Workers : voteSave(p)

Spec == Init /\ [][Next]_vars

\* requests handled one after the other
SeqNext ==
    \/ Tick
    \/ index
    \/ \E q \in UrlQuestionIds : detail(q)
    \/ \E q \in UrlQuestionIds : results(q)
    \/ \E q \in UrlQuestionIds, post \in PostData : vote(q, post)

SeqSpec == Init /\ [][SeqNext]_vars

----------------------------------------------------------------------------
\* index over a table with more published questions than the page lists.

ListQuestionIds == 1..(ListLimit + 1)

NoRows == [c \in {} |-> 0]

ListInit ==
    /\ now = 0
    /\ pub_date \in [ListQuestionIds -> 0..(MaxNow + 1)]
    /\ choice_question = NoRows
    /\ votes = NoRows
    /\ redirects = NoRows
    /\ Idle

ListNext ==
    \/ Tick
    \/ index

ListSpec == ListInit /\ [][ListNext]_vars

----------------------------------------------------------------------------
\* Question.was_published_recently(), with the time in seconds.

\* datetime.timedelta(days=1)
Day == 86400

\* a variant of the window below that includes its older end
PublishedWithinDayInclusive(q) == now - Day <= pub_date[q] /\ pub_date[q] <= now

\* now - timedelta(days=1) < pub_date <= now
was_published_recently(q) == now - Day < pub_date[q] /\ pub_date[q] <= now

WasPublishedRecently(q) ==
    /\ recently' = [question_id |-> q, at |-> now, value |-> was_published_recently(q)]
    /\ UNCHANGED <<now, pub_date, choice_question, votes, pc, selected_choice, resp,
                   redirects>>

\* pub_dates around the two ends of the window, and the ones the tests use
RecentDates ==
    {0 - 30 * Day, 0 - Day - 1, 0 - Day, 1 - Day, 2 - Day, 0 - 1, 0, 1, 2, 30 * Day}

RecentInit ==
    /\ now = 0
    /\ pub_date \in [StoredQuestionIds -> RecentDates]
    /\ choice_question = NoRows
    /\ votes = NoRows
    /\ redirects = NoRows
    /\ Idle

RecentNext ==
    \/ Tick
    \/ \E q \in StoredQuestionIds : WasPublishedRecently(q)

RecentSpec == RecentInit /\ [][RecentNext]_vars

----------------------------------------------------------------------------
\* What the properties below are stated with.

\* the decimal digits of an id, as a form submits it
Digit(d) ==
    IF \E ch \in DOMAIN DigitVal : DigitVal[ch] = d
    THEN CHOOSE ch \in DOMAIN DigitVal : DigitVal[ch] = d
    ELSE "?"

RECURSIVE Decimal(_)
Decimal(n) ==
    IF n < 10 THEN <<Digit(n)>> ELSE Decimal(n \div 10) \o <<Digit(n % 10)>>

RECURSIVE Pow10(_)
Pow10(n) == IF n = 0 THEN 1 ELSE 10 * Pow10(n - 1)

\* the ids a request of the model can submit
SubmittedIds == {n \in 0..(Pow10(MaxFieldLen) - 1) : Decimal(n) \in FieldValues}

\* question q is stored and not future-dated
Visible(q) == q \in DOMAIN pub_date /\ pub_date[q] <= now

ChoicesOf(q) == {c \in DOMAIN choice_question : choice_question[c] = q}

OtherVotesUnchanged(c) ==
    /\ DOMAIN votes' = DOMAIN votes
    /\ \A d \in DOMAIN votes \ {c} : votes'[d] = votes[d]

----------------------------------------------------------------------------
\* This step is the request that the response resp' answers.
VoteStep == resp'.op = "vote" /\ vote(resp'.question_id, resp'.post)
DetailStep == resp'.op = "detail" /\ detail(resp'.question_id)
ResultsStep == resp'.op = "results" /\ results(resp'.question_id)

\* C1: a vote request on an existing, non-future question q that submits the
\* id of a choice c of q increases votes[c] by exactly 1, leaves the votes of
\* every other choice unchanged and answers with a redirect to the results
\* page of q.
C1_VoteIncrementsOnlyTheChoice ==
    [][\A c \in SubmittedIds :
          (/\ VoteStep
           /\ Visible(resp'.question_id)
           /\ c \in ChoicesOf(resp'.question_id)
           /\ resp'.post = [choice |-> Decimal(c)])
          => /\ votes'[c] = votes[c] + 1
             /\ OtherVotesUnchanged(c)
             /\ resp'.status = 302
             /\ resp'.location = resp'.question_id]_vars

\* the scenario of test_vote_with_valid_choice: choice 1 of question 1 goes
\* from 0 votes to 1, the other rows keep their votes, the answer redirects to
\* the results of question 1
C1_Witness ==
    /\ resp.op = "vote" /\ resp.status = 302 /\ resp.location = 1
    /\ resp.post = [choice |-> <<"1">>]
    /\ votes = (1 :> 1) @@ (2 :> 1) @@ (3 :> 0)

\* C2: concurrent votes lose no increment: once every vote request has
\* completed, each choice's votes are its initial votes plus the number of
\* requests that resolved it and answered with a redirect.
C2_NoLostIncrement ==
    InFlight = {} => \A c \in DOMAIN votes : votes[c] = InitialVotes[c] + redirects[c]

\* C3: a vote request on an existing, non-future question q with no `choice`
\* field, or with the id of no choice of q (no choice at all, or a choice of
\* another question), changes no vote count and answers 200 with q's detail
\* page and the error message.
C3_InvalidChoiceRedisplays ==
    [][(/\ VoteStep
        /\ Visible(resp'.question_id)
        /\ \/ resp'.post = NoField
           \/ \E n \in SubmittedIds \ ChoicesOf(resp'.question_id) :
                 resp'.post = [choice |-> Decimal(n)])
       => /\ votes' = votes
          /\ resp'.status = 200
          /\ resp'.template = "polls/detail.html"
          /\ resp'.error_message = "You didn't select a choice."]_vars

\* choice 3 belongs to question 2; submitted to question 1 it is refused and
\* no row has changed
C3_Witness ==
    /\ resp.op = "vote" /\ resp.question_id = 1 /\ resp.status = 200
    /\ resp.post = [choice |-> <<"3">>]
    /\ resp.error_message = "You didn't select a choice."
    /\ votes = InitialVotes

\* C4: for a question id that is not stored or whose pub_date is after now,
\* detail, results and vote answer 404, and vote changes no vote count,
\* whatever choice is submitted.
C4_FutureOrMissingIsNotFound ==
    [][(/\ DetailStep \/ ResultsStep \/ VoteStep
        /\ \/ resp'.question_id \notin DOMAIN pub_date
           \/ pub_date[resp'.question_id] > now)
       => resp'.status = 404 /\ votes' = votes]_vars

\* a vote on the future-dated question 2 with its own choice 3: 404, no vote
C4_Witness ==
    /\ resp.op = "vote" /\ resp.question_id = 2 /\ resp.status = 404
    /\ resp.post = [choice |-> <<"3">>]
    /\ pub_date[2] > resp.at
    /\ votes = InitialVotes

Min(a, b) == IF a < b THEN a ELSE b

\* C5: the list is the min(5, k) questions with the latest pub_date among the
\* k questions with pub_date <= now, in descending pub_date order: no
\* question with pub_date > now, and the empty list when k = 0.
C5_LatestFivePublished ==
    resp.op = "index" =>
        LET l == resp.latest_question_list
            published == {q \in DOMAIN pub_date : pub_date[q] <= resp.at}
            listed == {l[i] : i \in 1..Len(l)}
        IN /\ Len(l) = Min(5, Cardinality(published))
           /\ Cardinality(listed) = Len(l)
           /\ listed \subseteq published
           /\ \A i \in 1..Len(l) : \A j \in i..Len(l) :
                 pub_date[l[i]] >= pub_date[l[j]]
           /\ \A q \in published \ listed : \A r \in listed :
                 pub_date[q] <= pub_date[r]

\* six questions are published and the page lists five of them
C5_Witness ==
    /\ resp.op = "index"
    /\ Len(resp.latest_question_list) = 5
    /\ Cardinality({q \in DOMAIN pub_date : pub_date[q] <= resp.at}) = 6
    /\ \E q \in DOMAIN pub_date :
          pub_date[q] < pub_date[resp.latest_question_list[5]]

\* C6: no step decrements a vote count, and a vote count is never negative.
C6_VotesNeverDecrease ==
    [][\A c \in DOMAIN votes : votes'[c] >= votes[c] /\ votes'[c] >= 0]_vars

\* C7: over requests that do not overlap, each choice's votes are its initial
\* votes plus the number of vote requests that resolved it and answered with
\* a redirect; a list, detail, results, 404 or inline-error response changes
\* no vote count.
C7_VotesCountRedirects ==
    /\ [](\A c \in DOMAIN votes : votes[c] = InitialVotes[c] + redirects[c])
    /\ [][(resp'.op # "vote" \/ resp'.status # 302) => votes' = votes]_vars

\* the same valid vote submitted twice has counted twice, and the inline
\* error that followed has changed nothing
C7_Witness ==
    /\ redirects[1] = 2 /\ votes[1] = InitialVotes[1] + 2
    /\ resp.op = "vote" /\ resp.status = 200
    /\ resp.error_message = "You didn't select a choice."

\* C8: was_published_recently() is true iff now - 1 day < pub_date <= now:
\* false for a pub_date after now, false at or before now - 1 day, true at
\* now - 23:59:59.
C8_PublishedRecentlyWindow ==
    recently.question_id # 0 =>
        LET d == pub_date[recently.question_id]
            t == recently.at
        IN /\ recently.value <=> (t - 24 * 60 * 60 < d /\ d <= t)
           /\ d > t => ~recently.value
           /\ d <= t - 24 * 60 * 60 => ~recently.value
           /\ d = t - (23 * 60 * 60 + 59 * 60 + 59) => recently.value

\* the call at one second past the epoch on a question published exactly one
\* day before returns false
C8_Witness ==
    /\ recently.question_id # 0
    /\ recently.at = 1
    /\ pub_date[recently.question_id] = recently.at - 24 * 60 * 60
    /\ ~recently.value

\* C9: a vote request on an existing, non-future question answers 302 when the
\* submitted value resolves to a choice of the question and otherwise 200
\* with the inline error, for every submitted value.
C9_VoteAnswers302Or200 ==
    (/\ resp.op = "vote"
     /\ resp.question_id \in DOMAIN pub_date
     /\ pub_date[resp.question_id] <= resp.at)
    => \/ resp.status = 302
       \/ resp.status = 200 /\ resp.error_message = "You didn't select a choice."

\* C10: at any one time a stored question passes the list filter iff detail,
\* results and vote do not answer 404 for it; every question the list page
\* shows is reachable at that time; a visible question stays visible as the
\* clock advances.
C10_OneVisibilityRule ==
    [][/\ (/\ DetailStep \/ ResultsStep \/ VoteStep
           /\ resp'.question_id \in DOMAIN pub_date)
          => (resp'.status # 404 <=> resp'.question_id \in PublishedQuestions)
       /\ index =>
             \A i \in 1..Len(resp'.latest_question_list) :
                QuestionPage("detail", resp'.latest_question_list[i],
                             "polls/detail.html").status = 200
       /\ \A q \in DOMAIN pub_date :
             q \in PublishedQuestions => q \in PublishedQuestions']_vars

\* the boundary: a question whose pub_date is the current time is listed and
\* its results page is served
C10_Witness ==
    /\ resp.op = "results" /\ resp.status = 200
    /\ pub_date[resp.question_id] = resp.at
    /\ resp.at = 1

====
